---- MODULE Spec2Model ----
(***************************************************************************)
(* GraphAttention (GraphMultiheadAttention.py): segmented cross-modal      *)
(* multi-head attention over a text/vision/audio sequence, and the         *)
(* build_adj_masked_matrix helper of the file's __main__ block.            *)
(*                                                                         *)
(* Tensors are modelled as torch stores them: a shape and a row-major flat *)
(* sequence of elements, so view/transpose/cat/slice act on the layout.    *)
(* The input projections are computed over the integers.  Values that are  *)
(* not rational (head_dim ** -0.5, exp) are kept as exact terms:           *)
(*   [n |-> a, rsqrt |-> d]            the number a * d^(-1/2)              *)
(*   [num |-> s, den |-> <<s1..sn>>]   exp(s) / (exp(s1) + ... + exp(sn))   *)
(*   [w |-> x, keep |-> b, p |-> p]    x after dropout: 0 or x / (1 - p)    *)
(*   <<[w |-> x1, v |-> y1], ...>>     the sum x1*y1 + x2*y2 + ...          *)
(*   [weight |-> r, bias |-> b, x |-> <<x1..xn>>]   r . x + b               *)
(***************************************************************************)
EXTENDS Integers, Sequences, FiniteSets, TLC

\* ---------------------------------------------------------------- bounds
MaxEmbed == 2
MaxBatch == 2
MaxLen == 3

\* num_heads ranges as far as embed_dim does
MaxHeads == MaxEmbed

\* ------------------------------------------------------------ tensors
Numel(shape) == shape[1] * shape[2] * shape[3]

\* a function on 1..n as the tuple of its values
Tuple(f) == SubSeq(f, 1, Cardinality(DOMAIN f))

\* element (i, j, k), zero-based, of a 3-d tensor
At(T, i, j, k) == T.data[(i * T.shape[2] + j) * T.shape[3] + k + 1]

\* the 3-d tensor of the given shape whose element (i, j, k) is F(i, j, k)
Mk(shape, F(_, _, _)) ==
    [shape |-> shape,
     data  |-> Tuple([n \in 1..Numel(shape) |->
                        F((n - 1) \div (shape[2] * shape[3]),
                          ((n - 1) \div shape[3]) % shape[2],
                          (n - 1) % shape[3])])]

EmptyTensor == [shape |-> <<0, 0, 0>>, data |-> <<>>]

\* sum of f[1..n]
RECURSIVE SumTo(_, _)
SumTo(f, n) == IF n = 0 THEN 0 ELSE f[n] + SumTo(f, n - 1)

Min(a, b) == IF a < b THEN a ELSE b
Max(a, b) == IF a < b THEN b ELSE a

\* x.view(shape): the same flat data under another shape
View(T, shape) == [shape |-> shape, data |-> T.data]

\* x.transpose(0, 1)
Transpose01(T) ==
    Mk(<<T.shape[2], T.shape[1], T.shape[3]>>, LAMBDA i, j, k : At(T, j, i, k))

\* torch.cat([A, B]) along dim 0
Cat0(A, B) ==
    [shape |-> <<A.shape[1] + B.shape[1], A.shape[2], A.shape[3]>>,
     data  |-> A.data \o B.data]

\* torch.cat([A, B], dim=1)
Cat1(A, B) ==
    Mk(<<A.shape[1], A.shape[2] + B.shape[2], A.shape[3]>>,
       LAMBDA i, j, k : IF j < A.shape[2] THEN At(A, i, j, k)
                        ELSE At(B, i, j - A.shape[2], k))

\* x[:, lo:hi] with Python's clamping of the slice to the dimension
Slice1(T, lo, hi) ==
    LET n == T.shape[2]
        a == Min(lo, n)
        b == Min(hi, n)
        len == Max(0, b - a)
    IN Mk(<<T.shape[1], len, T.shape[3]>>, LAMBDA i, j, k : At(T, i, a + j, k))

\* rows [lo, hi) of a 2-d parameter (weight[start:end, :], bias[start:end])
Rows(W, lo, hi) == SubSeq(W, lo + 1, hi)

\* x.chunk(n, dim=-1)[c]: the c-th (zero-based) of n equal chunks of the last dim
Chunk(T, n, c) ==
    LET w == (T.shape[3] + n - 1) \div n
    IN Mk(<<T.shape[1], T.shape[2], w>>, LAMBDA i, j, k : At(T, i, j, c * w + k))

\* ------------------------------------------------- inputs and storage
\* A storage is a flat buffer; an input tensor is a contiguous view of one,
\* starting at its first element.  Two buffers with different contents.
Storages == {"X", "Y"}
StorageSize == MaxLen * MaxBatch * MaxEmbed
Storage(st) == Tuple([n \in 1..StorageSize |-> IF st = "X" THEN n ELSE 0 - (2 * n + 1)])

\* tensor.data_ptr(): the address of the view's first element
DataPtr(view) == view.st

\* tensor.size()
Size(view) == <<view.len, view.bsz, view.edim>>

\* the tensor a view denotes
Deref(view) ==
    [shape |-> Size(view),
     data  |-> SubSeq(Storage(view.st), 1, Numel(Size(view)))]

\* -------------------------------------------------------- parameters
\* reset_parameters: xavier-initialised weights (arbitrary, pairwise distinct
\* here), biases set to the constant 0, bias_k / bias_v xavier-normal
InitInProjWeight(E) ==
    Tuple([r \in 1..(3 * E) |-> Tuple([c \in 1..E |-> (r - 1) * E + c])])
InitInProjBias(E) == Tuple([r \in 1..(3 * E) |-> 0])
InitOutProjWeight(E) ==
    Tuple([r \in 1..E |-> Tuple([c \in 1..E |-> 0 - ((r - 1) * E + c)])])
InitOutProjBias(E) == Tuple([r \in 1..E |-> 0])
InitBiasK(E) == [shape |-> <<1, 1, E>>, data |-> Tuple([c \in 1..E |-> 40 + c])]
InitBiasV(E) == [shape |-> <<1, 1, E>>, data |-> Tuple([c \in 1..E |-> 50 + c])]

\* an absent optional value (Python's None) and a present one
None == [isNone |-> TRUE]
Some(x) == [isNone |-> FALSE, val |-> x]

\* the assertion compared with <= : every embed_dim passes
HeadsDivide_NoCheck(embed_dim, num_heads) ==
    (embed_dim \div num_heads) * num_heads <= embed_dim

\* the assertion of __init__
HeadsDivide(embed_dim, num_heads) ==
    (embed_dim \div num_heads) * num_heads = embed_dim

\* GraphAttention.__init__: the module's fields after construction
NewModule(embed_dim, num_heads, attn_dropout, bias, add_bias_kv, add_zero_attn) ==
    [embed_dim      |-> embed_dim,
     num_heads      |-> num_heads,
     attn_dropout   |-> attn_dropout,
     head_dim       |-> embed_dim \div num_heads,
     in_proj_weight |-> InitInProjWeight(embed_dim),
     in_proj_bias   |-> IF bias THEN Some(InitInProjBias(embed_dim)) ELSE None,
     out_proj       |-> [weight |-> InitOutProjWeight(embed_dim),
                         bias   |-> IF bias THEN Some(InitOutProjBias(embed_dim))
                                    ELSE None],
     bias_k         |-> IF add_bias_kv THEN Some(InitBiasK(embed_dim)) ELSE None,
     bias_v         |-> IF add_bias_kv THEN Some(InitBiasV(embed_dim)) ELSE None,
     add_zero_attn  |-> add_zero_attn,
     training       |-> TRUE]

\* ------------------------------------------------------- projections
\* F.linear(input, weight, bias) over the last dimension
Linear(input, weight, bias) ==
    Mk(<<input.shape[1], input.shape[2], Len(weight)>>,
       LAMBDA i, j, k :
          SumTo([c \in 1..input.shape[3] |-> At(input, i, j, c - 1) * weight[k + 1][c]],
                input.shape[3])
          + (IF bias.isNone THEN 0 ELSE bias.val[k + 1]))

\* F.linear raises unless the input's last dimension is the weight's in_features
LinearFits(input, weight) == \A r \in 1..Len(weight) : Len(weight[r]) = input.shape[3]

\* _in_proj(input, start, end); end = None is passed as the number of rows
InProj(m, input, start, end) ==
    Linear(input,
           Rows(m.in_proj_weight, start, end),
           IF m.in_proj_bias.isNone THEN None
           ELSE Some(Rows(m.in_proj_bias.val, start, end)))

in_proj_qkv(m, query) ==
    LET p == InProj(m, query, 0, 3 * m.embed_dim)
    IN <<Chunk(p, 3, 0), Chunk(p, 3, 1), Chunk(p, 3, 2)>>

in_proj_kv(m, key) ==
    LET p == InProj(m, key, m.embed_dim, 3 * m.embed_dim)
    IN <<Chunk(p, 2, 0), Chunk(p, 2, 1)>>

in_proj_q(m, query) == InProj(m, query, 0, m.embed_dim)

in_proj_k(m, key) == InProj(m, key, m.embed_dim, 2 * m.embed_dim)

in_proj_v(m, value) == InProj(m, value, 2 * m.embed_dim, 3 * m.embed_dim)

\* lines 59-60: the choice of the projection branch
QkvSame(c) == DataPtr(c.query) = DataPtr(c.key) /\ DataPtr(c.key) = DataPtr(c.value)
KvSame(c) == DataPtr(c.key) = DataPtr(c.value)

\* lines 69-84: [ok, q, k, v]; ok is FALSE when F.linear raises
Project(m, c) ==
    LET qn == Deref(c.query)
        kn == Deref(c.key)
        vn == Deref(c.value)
        W  == m.in_proj_weight
    IN IF QkvSame(c)
       THEN IF LinearFits(qn, W)
            THEN LET p == in_proj_qkv(m, qn)
                 IN [ok |-> TRUE, q |-> p[1], k |-> p[2], v |-> p[3]]
            ELSE [ok |-> FALSE]
       ELSE IF KvSame(c)
       THEN IF LinearFits(qn, W) /\ LinearFits(kn, W)
            THEN LET p == in_proj_kv(m, kn)
                 IN [ok |-> TRUE, q |-> in_proj_q(m, qn), k |-> p[1], v |-> p[2]]
            ELSE [ok |-> FALSE]
       ELSE IF LinearFits(qn, W) /\ LinearFits(kn, W) /\ LinearFits(vn, W)
            THEN [ok |-> TRUE, q |-> in_proj_q(m, qn),
                  k |-> in_proj_k(m, kn), v |-> in_proj_v(m, vn)]
            ELSE [ok |-> FALSE]

\* q * self.scaling, scaling = head_dim ** -0.5
Scale(T, head_dim) ==
    Mk(T.shape, LAMBDA i, j, k : [n |-> At(T, i, j, k), rsqrt |-> head_dim])

\* ---------------------------------------------- attention primitives
\* bias.repeat(1, bsz, 1) of a (1, 1, E) parameter
Repeat(T, bsz) == Mk(<<1, bsz, T.shape[3]>>, LAMBDA i, j, k : At(T, 0, 0, k))

\* x.new_zeros((x.size(0), 1) + x.size()[2:])
ZeroColumn(T) == Mk(<<T.shape[1], 1, T.shape[3]>>, LAMBDA i, j, k : 0)

\* torch.bmm(Q, K.transpose(1, 2)) of scaled queries and keys
BmmQK(Q, K) ==
    Mk(<<Q.shape[1], Q.shape[2], K.shape[2]>>,
       LAMBDA b, i, j :
          [n     |-> SumTo([c \in 1..Q.shape[3] |->
                              At(Q, b, i, c - 1).n * At(K, b, j, c - 1)], Q.shape[3]),
           rsqrt |-> At(Q, b, i, 0).rsqrt])

\* F.softmax(x, dim=-1)
Softmax(T) ==
    Mk(T.shape,
       LAMBDA b, i, j :
          [num |-> At(T, b, i, j),
           den |-> Tuple([jj \in 1..T.shape[3] |-> At(T, b, i, jj - 1)])])

\* the elements a dropout draw keeps: all of them, or those of odd row + column
DropPatterns == {"keep", "odd"}
Kept(pattern, i, j) == IF pattern = "keep" THEN TRUE ELSE (i + j) % 2 = 1

\* F.dropout(x, p, training): the input when not training or p = 0, else
\* each element zeroed or scaled by 1 / (1 - p); p in percent
Dropout(T, p, training, pattern) ==
    Mk(T.shape,
       LAMBDA b, i, j :
          IF training /\ p > 0
          THEN [w |-> At(T, b, i, j), keep |-> Kept(pattern, i, j), p |-> p]
          ELSE [w |-> At(T, b, i, j), keep |-> TRUE, p |-> 0])

\* torch.bmm(W, V): each element the sum over the keys of weight * value
BmmWV(W, V) ==
    Mk(<<W.shape[1], W.shape[2], V.shape[3]>>,
       LAMBDA b, i, c :
          Tuple([j \in 1..W.shape[3] |->
                    [w |-> At(W, b, i, j - 1), v |-> At(V, b, j - 1, c)]]))

\* self.out_proj(attn): F.linear over elements that are terms
OutProj(m, T) ==
    Mk(<<T.shape[1], T.shape[2], Len(m.out_proj.weight)>>,
       LAMBDA i, j, k :
          [weight |-> m.out_proj.weight[k + 1],
           bias   |-> IF m.out_proj.bias.isNone THEN 0 ELSE m.out_proj.bias.val[k + 1],
           x      |-> Tuple([c \in 1..T.shape[3] |-> At(T, i, j, c - 1)])])

\* -------------------------------------------------- direction policy
\* s3 ending at audio instead of text + vision + audio
Ranges_AudioEnd(seq_split) ==
    LET text   == seq_split[1]
        vision == seq_split[2]
        audio  == seq_split[3]
    IN << <<0, text>>,
          <<text, text + vision>>,
          <<text + vision, audio>> >>

\* lines 111-113: the three ranges s1, s2, s3 of seq_split
Ranges(seq_split) ==
    LET text   == seq_split[1]
        vision == seq_split[2]
        audio  == seq_split[3]
    IN << <<0, text>>,
          <<text, text + vision>>,
          <<text + vision, text + vision + audio>> >>

\* lines 115-144: for attn_weights[0..2], the key range multiplied with the
\* query range s1, s2, s3
ScoreKeySegment(direction) ==
    IF direction = "forward" THEN <<2, 3, 1>>
    ELSE IF direction = "backward" THEN <<3, 1, 2>>
    ELSE <<1, 2, 3>>

\* the values taken from the query's own segment
ValueSegment_OfQuery(direction) == <<1, 2, 3>>

\* lines 161-172: for attn_weights[0..2], the value range it is multiplied with
ValueSegment(direction) ==
    IF direction = "forward" THEN <<2, 3, 1>>
    ELSE IF direction = "backward" THEN <<3, 1, 2>>
    ELSE <<1, 2, 3>>

\* x[:, s[0]:s[1]]
Seg(T, s) == Slice1(T, s[1], s[2])

\* ------------------------------------------------------------ forward
Nil == <<EmptyTensor, EmptyTensor, EmptyTensor>>

\* the locals of forward when it raises `err` before computing them
Raised(err, line) ==
    [err |-> err, line |-> line, proj |-> Nil, q |-> EmptyTensor,
     k |-> EmptyTensor, v |-> EmptyTensor, src_len |-> 0, edge_mask |-> None, scores |-> Nil,
     attn_weights |-> Nil, blocks |-> Nil, attn |-> EmptyTensor,
     out |-> EmptyTensor]

\* lines 91-92 and 106-107: edge_mask gains one zero column
PadMask(edge_mask) ==
    IF edge_mask.isNone THEN None
    ELSE Some(<<edge_mask.val[1], edge_mask.val[2] + 1>>)

\* the frame with `err` raised at `line`
Raise(f, err, line) == [f EXCEPT !.err = err, !.line = line]

\* lines 62-85: the assertions, the projections (kept in proj as lines 69-84
\* leave them) and the scaling of q.
\* (The assertion of line 64 compares the query's size with itself.)
ProjectStep(m, c, p) ==
    IF Size(c.query)[3] # m.embed_dim THEN Raised("AssertionError", 63)
    ELSE IF Size(c.key) # Size(c.value) THEN Raised("AssertionError", 65)
    ELSE IF ~p.ok THEN Raised("RuntimeError", 202)
    ELSE [Raised("none", 0) EXCEPT !.proj = <<p.q, p.k, p.v>>,
                                   !.q = Scale(p.q, m.head_dim), !.k = p.k,
                                   !.v = p.v, !.edge_mask = c.edge_mask]

\* lines 87-92: bias_k and bias_v appended as one more position; torch.cat
\* needs equal sizes outside dim 0
BiasStep(m, c, f) ==
    LET bsz == Size(c.query)[2]
    IN IF f.err # "none" \/ m.bias_k.isNone THEN f
       ELSE IF f.k.shape[2] # bsz THEN Raise(f, "RuntimeError", 89)
       ELSE [f EXCEPT !.k = Cat0(f.k, Repeat(m.bias_k.val, bsz)),
                      !.v = Cat0(f.v, Repeat(m.bias_v.val, bsz)),
                      !.edge_mask = PadMask(f.edge_mask)]

\* x.contiguous().view(rows, bsz * num_heads, head_dim).transpose(0, 1)
Heads(T, rows, m, bsz) ==
    Transpose01(View(T, <<rows, bsz * m.num_heads, m.head_dim>>))

\* lines 94-100: the split into heads; view(-1, ...) needs an element count
\* divisible by bsz * num_heads * head_dim
HeadStep(m, c, f) ==
    LET tgt_len == Size(c.query)[1]
        bsz     == Size(c.query)[2]
        per     == bsz * m.num_heads * m.head_dim
    IN IF f.err # "none" THEN f
       ELSE IF Numel(f.k.shape) % per # 0 THEN Raise(f, "RuntimeError", 96)
       ELSE [f EXCEPT !.q = Heads(f.q, tgt_len, m, bsz),
                      !.k = Heads(f.k, Numel(f.k.shape) \div per, m, bsz),
                      !.v = Heads(f.v, Numel(f.v.shape) \div per, m, bsz),
                      !.src_len = Numel(f.k.shape) \div per]

\* the zero position put before the keys and values instead of after them
ZeroAttnStep_Prepended(m, f) ==
    IF f.err # "none" \/ ~m.add_zero_attn THEN f
    ELSE [f EXCEPT !.src_len = f.src_len + 1,
                   !.k = Cat1(ZeroColumn(f.k), f.k),
                   !.v = Cat1(ZeroColumn(f.v), f.v),
                   !.edge_mask = PadMask(f.edge_mask)]

\* lines 102-107: add_zero_attn appends a zero position to k and v
ZeroAttnStep(m, f) ==
    IF f.err # "none" \/ ~m.add_zero_attn THEN f
    ELSE [f EXCEPT !.src_len = f.src_len + 1,
                   !.k = Cat1(f.k, ZeroColumn(f.k)),
                   !.v = Cat1(f.v, ZeroColumn(f.v)),
                   !.edge_mask = PadMask(f.edge_mask)]

\* lines 110-144: the three score blocks
ScoreStep(c, f) ==
    LET s  == Ranges(c.seq_split)
        ks == ScoreKeySegment(c.direction)
    IN IF f.err # "none" THEN f
       ELSE [f EXCEPT !.scores =
                <<BmmQK(Seg(f.q, s[1]), Seg(f.k, s[ks[1]])),
                  BmmQK(Seg(f.q, s[2]), Seg(f.k, s[ks[2]])),
                  BmmQK(Seg(f.q, s[3]), Seg(f.k, s[ks[3]]))>>]

\* lines 148-159: softmax and dropout; with mask_fixer, attn_weights.float()
\* is called on the list, which has no such method
SoftmaxStep(m, c, pat, f) ==
    IF f.err # "none" THEN f
    ELSE IF c.mask_fixer THEN Raise(f, "AttributeError", 149)
    ELSE [f EXCEPT !.attn_weights =
             <<Dropout(Softmax(f.scores[1]), m.attn_dropout, m.training, pat),
               Dropout(Softmax(f.scores[2]), m.attn_dropout, m.training, pat),
               Dropout(Softmax(f.scores[3]), m.attn_dropout, m.training, pat)>>]

\* the value blocks v[:, s[0]:s[1]] of lines 161-172
ValueBlocks(c, f) ==
    LET s  == Ranges(c.seq_split)
        vs == ValueSegment(c.direction)
    IN <<Seg(f.v, s[vs[1]]), Seg(f.v, s[vs[2]]), Seg(f.v, s[vs[3]])>>

\* lines 161-172: attn_weights[n] = bmm(attn_weights[n], value block); torch.bmm
\* needs as many value rows as the weights have columns
ValueStep(f, vb) ==
    IF f.err # "none" THEN f
    ELSE IF \E n \in 1..3 : f.attn_weights[n].shape[3] # vb[n].shape[2]
         THEN Raise(f, "RuntimeError", 162)
    ELSE [f EXCEPT !.blocks = <<BmmWV(f.attn_weights[1], vb[1]),
                                BmmWV(f.attn_weights[2], vb[2]),
                                BmmWV(f.attn_weights[3], vb[3])>>]

\* lines 174-177: concatenation, view(tgt_len, bsz, embed_dim) (which needs the
\* same element count) and the output projection
AssembleStep(m, c, f, cat) ==
    IF f.err # "none" THEN f
    ELSE IF Numel(cat.shape) # Numel(Size(c.query)) THEN Raise(f, "RuntimeError", 176)
    ELSE [f EXCEPT !.attn = View(Transpose01(cat), Size(c.query))]

OutStep(m, f) ==
    IF f.err # "none" THEN f ELSE [f EXCEPT !.out = OutProj(m, f.attn)]

\* the concatenation without the third block
Concat_Dropped(blocks) == Cat1(blocks[1], blocks[2])

\* line 174: torch.concat(attn_weights, dim=1)
Concat(blocks) == Cat1(Cat1(blocks[1], blocks[2]), blocks[3])

AssembleOf(m, c, f) == OutStep(m, AssembleStep(m, c, f, Concat(f.blocks)))

ValuesOf(c, f) == ValueStep(f, ValueBlocks(c, f))

\* GraphAttention.forward(query_nodes, key_nodes, value_nodes, edge_mask,
\* seq_split, mask_fixer, direction) on module m; `pat` is the draw of
\* F.dropout.  The result holds the locals and the exception raised, if any.
ForwardResult(m, c, pat) ==
    AssembleOf(m, c,
      ValuesOf(c,
        SoftmaxStep(m, c, pat,
          ScoreStep(c,
            ZeroAttnStep(m,
              HeadStep(m, c,
                BiasStep(m, c,
                  ProjectStep(m, c, Project(m, c)))))))))

\* ---------------------------------------------- build_adj_masked_matrix
\* a float32 entry of the mask, mantissa and decimal exponent
Float(mant, exp) == [mant |-> mant, exp |-> exp]

\* row[lo:hi] = 0, the slice clamped to the row
ZeroRange(row, lo, hi) ==
    [j \in 1..Len(row) |-> IF lo < j /\ j <= Min(hi, Len(row)) THEN 0 ELSE row[j]]

\* lines 233-251: the row of a query position in segment idx (0, 1 or 2)
MaskRow(split, idx, direction) ==
    LET s1      == Ranges(split)[1]
        s2      == Ranges(split)[2]
        s3      == Ranges(split)[3]
        sum_len == split[1] + split[2] + split[3]
        ones    == [j \in 1..sum_len |-> 1]
    IN IF idx = 0
       THEN LET r == ZeroRange(ones, 0, s1[2])
            IN IF direction = "forward" THEN ZeroRange(r, s3[1], sum_len)
               ELSE IF direction = "backward" THEN ZeroRange(r, s2[1], s2[2])
               ELSE r
       ELSE IF idx = 1
       THEN LET r == ZeroRange(ones, s2[1], s2[2])
            IN IF direction = "forward" THEN ZeroRange(r, s3[1], sum_len)
               ELSE IF direction = "backward" THEN ZeroRange(r, 0, s1[2])
               ELSE r
       ELSE LET r == ZeroRange(ones, s3[1], s3[2])
            IN IF direction = "forward" THEN ZeroRange(r, 0, s1[2])
               ELSE IF direction = "backward" THEN ZeroRange(r, s2[1], s2[2])
               ELSE r

\* lines 231-252: mask_list, one row per position, segment by segment
MaskList(split, direction) ==
    [i \in 1..(split[1] + split[2] + split[3]) |->
        MaskRow(split,
                IF i <= split[1] THEN 0 ELSE IF i <= split[1] + split[2] THEN 1 ELSE 2,
                direction)]

\* get_mask_neginf_0: -10e9 where the entry is 0, and 0 elsewhere
get_mask_neginf_0(mask) ==
    [i \in 1..Len(mask) |->
        [j \in 1..Len(mask[i]) |->
            IF mask[i][j] = 0 THEN Float(0 - 10, 9) ELSE Float(0, 0)]]

\* torch.abs(mask - 1)
AbsMinusOne(mask) ==
    [i \in 1..Len(mask) |->
        [j \in 1..Len(mask[i]) |->
            IF mask[i][j] - 1 < 0 THEN 1 - mask[i][j] ELSE mask[i][j] - 1]]

\* build_adj_masked_matrix(split, mode, direction): the mask returned or the
\* exception raised; torch.stack raises on an empty list
BuildResult(split, mode, direction) ==
    LET mask_list == MaskList(split, direction)
    IN IF mode = "cross"
       THEN IF Len(mask_list) = 0 THEN [err |-> "RuntimeError", mask |-> <<>>]
            ELSE IF direction = "forward"
                 THEN [err |-> "none", mask |-> get_mask_neginf_0(mask_list)]
            ELSE IF direction = "backward"
                 THEN [err |-> "none", mask |-> get_mask_neginf_0(mask_list)]
            ELSE [err |-> "ValueError", mask |-> <<>>]
       ELSE IF mode = "self"
       THEN IF Len(mask_list) = 0 THEN [err |-> "RuntimeError", mask |-> <<>>]
            ELSE [err |-> "none", mask |-> get_mask_neginf_0(AbsMinusOne(mask_list))]
       ELSE [err |-> "ValueError", mask |-> <<>>]

\* ------------------------------------------------------ state machine
VARIABLES
    pc,        \* "start", "ready", "returned", "raised", "mask"
    ctor,      \* the arguments of GraphAttention(...)
    self,      \* the module constructed
    args,      \* the arguments of the forward call
    pattern,   \* the draw of F.dropout in that call
    frame,     \* the locals of the forward call
    err,       \* the exception raised, "none" if none
    maskArgs,  \* the arguments of build_adj_masked_matrix(...)
    mask       \* the mask it returned

vars == <<pc, ctor, self, args, pattern, frame, err, maskArgs, mask>>

Directions == {"forward", "backward", "None"}
Modes == {"cross", "self", "other"}

\* the input tensors: non-empty views of either buffer
Views == [st : Storages, len : 1..MaxLen, bsz : 1..MaxBatch, edim : 1..MaxEmbed]
Splits == (0..MaxLen) \X (0..MaxLen) \X (0..MaxLen)
SplitSum(s) == s[1] + s[2] + s[3]

\* the views of the same storage that differ from w by one in one dimension
Alter(w) ==
    {x \in Views : /\ x.st = w.st
                   /\ Cardinality({f \in {"len", "bsz", "edim"} : x[f] # w[f]}) = 1
                   /\ \A f \in {"len", "bsz", "edim"} :
                         x[f] - w[f] \in {0 - 1, 0, 1}}

\* the splits of a sequence of length n into segments as even as can be
Balanced(n) ==
    {x \in Splits : /\ SplitSum(x) = n
                    /\ \A i, j \in 1..3 : x[i] - x[j] <= 1}

OnY(w) == [w EXCEPT !.st = "Y"]

\* the even split with the longer segments first
Even(n) == {x \in Balanced(n) : x[1] >= x[2] /\ x[2] >= x[3]}

\* the calls explored: self-attention on one tensor, key/value in another
\* buffer, or three independent tensors
WellFormedKeyValue(qv) == {<<qv, qv>>, <<OnY(qv), OnY(qv)>>, <<OnY(qv), qv>>}

\* the calls with one argument off: a key/value pair of another shape than the
\* query, or a value unlike its key
MismatchedKeyValue(qv) ==
    {<<w, w>> : w \in Alter(OnY(qv))} \cup {<<OnY(qv), w>> : w \in Alter(OnY(qv))}

\* and the calls whose key and value are a shorter or longer slice x[:n] of the
\* buffer the query is a slice of
AliasedKeyValue(qv) == {<<w, w>> : w \in {x \in Alter(qv) : x.len # qv.len}}

Init ==
    /\ pc = "start"
    /\ ctor = None
    /\ self = None
    /\ args = None
    /\ pattern = "keep"
    /\ frame = Raised("none", 0)
    /\ err = "none"
    /\ maskArgs = None
    /\ mask = <<>>

\* GraphAttention(embed_dim, num_heads, attn_dropout, bias, add_bias_kv, add_zero_attn);
\* attn_dropout in percent.  Explored: the default options with any of
\* add_bias_kv and add_zero_attn, without bias, and with dropout.
Construct ==
    /\ pc = "start"
    /\ \E e \in 1..MaxEmbed, h \in 1..MaxHeads, p \in {0, 50},
          b \in BOOLEAN, kv \in BOOLEAN, za \in BOOLEAN :
          /\ (p > 0 \/ ~b) => (~kv /\ ~za)
          /\ p > 0 => b
          /\ ctor' = [embed_dim |-> e, num_heads |-> h, attn_dropout |-> p,
                      bias |-> b, add_bias_kv |-> kv, add_zero_attn |-> za]
          /\ IF HeadsDivide(e, h)
             THEN /\ self' = NewModule(e, h, p, b, kv, za)
                  /\ err' = "none"
                  /\ pc' = "ready"
             ELSE /\ self' = None
                  /\ err' = "AssertionError"
                  /\ pc' = "raised"
    /\ UNCHANGED <<args, pattern, frame, maskArgs, mask>>

\* self.forward(...) with the arguments c and the dropout draw pat
Call(c, pat) ==
    /\ args' = c
    /\ pattern' = pat
    /\ frame' = ForwardResult(self, c, pat)
    /\ err' = frame'.err
    /\ pc' = IF err' = "none" THEN "returned" ELSE "raised"
    /\ UNCHANGED <<ctor, self, maskArgs, mask>>

NewCall(qv, kv, vv, s, d, mf, em) ==
    [query |-> qv, key |-> kv, value |-> vv, seq_split |-> s, direction |-> d,
     mask_fixer |-> mf,
     edge_mask |-> IF em THEN Some(<<qv.len, kv.len>>) ELSE None]

DrawsOf(m) == IF m.training /\ m.attn_dropout > 0 THEN DropPatterns ELSE {"keep"}

\* a query of the module's embedding dimension
Queries == {w \in Views : w.st = "X" /\ w.edim = self.embed_dim}

\* a call that keeps to the documented contract: every split of the
\* sequence, every direction
ForwardWellFormed ==
    /\ pc = "ready"
    /\ \E qv \in Queries :
       \E kvv \in WellFormedKeyValue(qv) :
       \E s \in {x \in Splits : SplitSum(x) = qv.len} :
       \E d \in Directions, pat \in DrawsOf(self) :
          Call(NewCall(qv, kvv[1], kvv[2], s, d, FALSE, FALSE), pat)

\* a call whose seq_split sums to one less or one more than the sequence length
ForwardBadSplit ==
    /\ pc = "ready"
    /\ \E qv \in Queries :
       \E s \in Balanced(qv.len - 1) \cup Balanced(qv.len + 1) :
       \E d \in Directions :
          Call(NewCall(qv, qv, qv, s, d, FALSE, FALSE), "keep")

\* a call whose query, key and value shapes disagree, or whose query has
\* another last dimension than embed_dim
ForwardMismatched ==
    /\ pc = "ready"
    /\ \E qv \in {w \in Views : w.st = "X"} :
       \E kvv \in (IF qv.edim = self.embed_dim THEN MismatchedKeyValue(qv)
                   ELSE {<<qv, qv>>}) :
       \E s \in Even(qv.len) :
       \E d \in Directions :
          Call(NewCall(qv, kvv[1], kvv[2], s, d, FALSE, FALSE), "keep")

\* a call whose key and value start at the query's address with another length
ForwardAliased ==
    /\ pc = "ready"
    /\ \E qv \in Queries :
       \E kvv \in AliasedKeyValue(qv) :
       \E s \in Even(qv.len) :
       \E d \in Directions :
          Call(NewCall(qv, kvv[1], kvv[2], s, d, FALSE, FALSE), "keep")

\* a call with mask_fixer or with edge_mask supplied
ForwardMasked ==
    /\ pc = "ready"
    /\ \E qv \in Queries :
       \E s \in Even(qv.len) :
       \E d \in Directions, mf \in BOOLEAN :
          Call(NewCall(qv, qv, qv, s, d, mf, ~mf), "keep")

\* build_adj_masked_matrix(split, mode, direction)
BuildMask ==
    /\ pc = "start"
    /\ \E s \in Splits, mode \in Modes, d \in Directions :
          LET r == BuildResult(s, mode, d)
          IN /\ maskArgs' = [split |-> s, mode |-> mode, direction |-> d]
             /\ mask' = r.mask
             /\ err' = r.err
             /\ pc' = IF r.err = "none" THEN "mask" ELSE "raised"
    /\ UNCHANGED <<ctor, self, args, pattern, frame>>

Next ==
    \/ Construct
    \/ ForwardWellFormed
    \/ ForwardBadSplit
    \/ ForwardMismatched
    \/ ForwardAliased
    \/ ForwardMasked
    \/ BuildMask

Spec == Init /\ [][Next]_vars

\* ------------------------------------------------------------- claims
HasCtor == "embed_dim" \in DOMAIN ctor
HasModule == "embed_dim" \in DOMAIN self
HasCall == "query" \in DOMAIN args
HasMaskArgs == "split" \in DOMAIN maskArgs

\* the constructor was given an embed_dim that num_heads divides
Divisible == ctor.embed_dim % ctor.num_heads = 0

\* C8: construction succeeds exactly when embed_dim % num_heads = 0; otherwise
\* it raises an assertion error in the constructor, no module exists and no
\* forward call has been made; on success head_dim * num_heads = embed_dim.
C8_ConstructionChecksDivisibility ==
    HasCtor =>
        /\ Divisible <=> HasModule
        /\ ~Divisible => /\ pc = "raised"
                         /\ err = "AssertionError"
                         /\ ~HasCall
        /\ Divisible => /\ self.head_dim * self.num_heads = self.embed_dim
                        /\ self.embed_dim = ctor.embed_dim
                        /\ self.num_heads = ctor.num_heads

\* a construction with an embed_dim that num_heads does not divide was refused
C8_Witness == HasCtor /\ ~Divisible /\ pc = "raised" /\ err = "AssertionError"

\* query, key and value have one shape, the query's last dimension is the
\* module's embed_dim, and no mask_fixer is passed
SameShapes == Size(args.key) = Size(args.query) /\ Size(args.value) = Size(args.query)
Conforming ==
    /\ HasCall
    /\ args.query.edim = self.embed_dim
    /\ SameShapes
    /\ ~args.mask_fixer
SplitFits == SplitSum(args.seq_split) = args.query.len

\* C2: when seq_split sums to the sequence length, the output forward returns
\* has the query's shape (sequence_length, batch, embed_dim), whatever the
\* direction; and forward does return on such a call when query, key and value
\* have one shape and no mask_fixer is passed.
C2_OutputHasQueryShape ==
    (HasCall /\ SplitFits) =>
        /\ pc = "returned" =>
             /\ frame.out.shape = Size(args.query)
             /\ Len(frame.out.data) = Numel(Size(args.query))
        /\ Conforming => pc = "returned"

\* a backward call over three non-empty segments and a batch of two returned
C2_Witness ==
    /\ HasCall
    /\ pc = "returned"
    /\ args.seq_split = <<1, 1, 1>>
    /\ args.direction = "backward"
    /\ args.query.bsz = 2

\* the direction table of the claims: the key segment paired with query segment j
ClaimKeySegment(direction, j) ==
    IF direction = "forward" THEN (IF j = 1 THEN 2 ELSE IF j = 2 THEN 3 ELSE 1)
    ELSE IF direction = "backward" THEN (IF j = 1 THEN 3 ELSE IF j = 2 THEN 1 ELSE 2)
    ELSE j

\* the first index of segment j, and the index after its last
SegLo(split, j) == IF j = 1 THEN 0 ELSE IF j = 2 THEN split[1] ELSE split[1] + split[2]
SegHi(split, j) == SegLo(split, j) + split[j]

\* the segment holding index i
SegOf(split, i) ==
    IF i < split[1] THEN 1 ELSE IF i < split[1] + split[2] THEN 2 ELSE 3

\* C6: with a zero-length segment in a seq_split that sums to the sequence
\* length, forward returns for every direction: block n has as many rows as
\* query segment n (none for an empty one), also when its key segment is empty
\* (its rows are then empty sums), and the rows add up to sequence_length.
C6_ZeroLengthSegments ==
    (Conforming /\ SplitFits /\ \E n \in 1..3 : args.seq_split[n] = 0) =>
        /\ pc = "returned"
        /\ \A n \in 1..3 :
             /\ frame.blocks[n].shape[2] = args.seq_split[n]
             /\ frame.scores[n].shape[3] =
                   args.seq_split[ClaimKeySegment(args.direction, n)]
             /\ args.seq_split[ClaimKeySegment(args.direction, n)] = 0 =>
                   \A x \in 1..Len(frame.blocks[n].data) : frame.blocks[n].data[x] = <<>>
        /\ frame.blocks[1].shape[2] + frame.blocks[2].shape[2]
              + frame.blocks[3].shape[2] = args.query.len
        /\ frame.attn.shape[1] = args.query.len

\* a forward call returned whose text segment attends to an empty vision
\* segment and whose vision segment is itself empty
C6_Witness ==
    /\ HasCall
    /\ pc = "returned"
    /\ args.seq_split = <<1, 0, 2>>
    /\ args.direction = "forward"
    /\ frame.scores[1].shape = <<args.query.bsz * self.num_heads, 1, 0>>
    /\ frame.blocks[2].shape[2] = 0

\* the output element (i, b, c) the claims describe, from the independent
\* projections QP, KP, VP of query_nodes, key_nodes and value_nodes: the sum,
\* over the key segment paired with i's segment, of softmax weight * value
ClaimScore(QP, KP, i, jj, b, h) ==
    [n     |-> SumTo([y \in 1..self.head_dim |->
                        At(QP, i, b, h * self.head_dim + y - 1)
                          * At(KP, jj, b, h * self.head_dim + y - 1)],
                     self.head_dim),
     rsqrt |-> self.head_dim]

ClaimElement(QP, KP, VP, i, b, c) ==
    LET split == args.seq_split
        j     == SegOf(split, i)
        kseg  == ClaimKeySegment(args.direction, j)
        klo   == SegLo(split, kseg)
        n     == split[kseg]
        h     == c \div self.head_dim
        drop  == self.training /\ self.attn_dropout > 0
        den   == Tuple([u \in 1..n |-> ClaimScore(QP, KP, i, klo + u - 1, b, h)])
    IN Tuple([t \in 1..n |->
          [w |-> [w    |-> [num |-> den[t], den |-> den],
                  keep |-> IF drop THEN Kept(pattern, i - SegLo(split, j), t - 1)
                           ELSE TRUE,
                  p    |-> IF drop THEN self.attn_dropout ELSE 0],
           v |-> At(VP, klo + t - 1, b, c)]])

ClaimHolds(QP, KP, VP) ==
    \A i \in 0..(args.query.len - 1), b \in 0..(args.query.bsz - 1) :
        /\ \A c \in 0..(self.embed_dim - 1) :
              At(frame.attn, i, b, c) = ClaimElement(QP, KP, VP, i, b, c)
        /\ \A c \in 0..(self.embed_dim - 1) :
              /\ At(frame.out, i, b, c).x =
                    Tuple([cc \in 1..self.embed_dim |-> At(frame.attn, i, b, cc - 1)])
              /\ At(frame.out, i, b, c).weight = self.out_proj.weight[c + 1]

Plain(m) == [m EXCEPT !.bias_k = None, !.bias_v = None, !.add_zero_attn = FALSE]

\* the call returned the attention output and the output of `plain`
SameOutput(plain) ==
    /\ plain.err = "none"
    /\ frame.attn = plain.attn
    /\ frame.out = plain.out

\* C10: with add_bias_kv or add_zero_attn, and t + v + a equal to the key
\* sequence length (key and query of one batch size), the positions appended to
\* k and v lie past all three ranges, and the attention output, before and
\* after the output projection, is that of the same call on the module
\* without them.
C10_AppendedPositionIsNeverAttended ==
    (/\ HasCall
     /\ pc = "returned"
     /\ ~self.bias_k.isNone \/ self.add_zero_attn
     /\ SplitSum(args.seq_split) = args.key.len
     /\ args.key.bsz = args.query.bsz) =>
        LET extra == (IF self.bias_k.isNone THEN 0 ELSE 1)
                       + (IF self.add_zero_attn THEN 1 ELSE 0)
        IN /\ frame.k.shape[2] = args.key.len + extra
           /\ frame.v.shape[2] = args.key.len + extra
           /\ Ranges(args.seq_split)[3][2] <= frame.k.shape[2] - extra
           /\ \A n \in 1..3 :
                 frame.scores[n].shape[3]
                    = args.seq_split[ClaimKeySegment(args.direction, n)]
           /\ SameOutput(ForwardResult(Plain(self), args, pattern))

\* a call returned on a module with both bias_k/bias_v and add_zero_attn, over
\* three non-empty segments
C10_Witness ==
    /\ HasCall
    /\ pc = "returned"
    /\ ~self.bias_k.isNone
    /\ self.add_zero_attn
    /\ args.seq_split = <<1, 1, 1>>
    /\ args.direction = "forward"
    /\ frame.k.shape[2] = 5

\* the independent projections of the three inputs exist
Projectable ==
    /\ args.query.edim = self.embed_dim
    /\ args.key.edim = self.embed_dim
    /\ args.value.edim = self.embed_dim

\* C3: whichever projection branch forward takes, the q, k and v of lines
\* 69-84 are the independent projections of query_nodes, key_nodes and
\* value_nodes (weight and bias rows [0,E), [E,2E), [2E,3E)).
C3_BranchesProjectAlike ==
    (HasCall /\ Projectable /\ Size(args.key) = Size(args.value)) =>
        /\ frame.err # "RuntimeError" \/ frame.line # 202
        /\ frame.proj[1] = in_proj_q(self, Deref(args.query))
        /\ frame.proj[2] = in_proj_k(self, Deref(args.key))
        /\ frame.proj[3] = in_proj_v(self, Deref(args.value))

\* C4: a call whose seq_split does not sum to the query's sequence length
\* (query, key and value of one shape, no mask_fixer) is aborted: it never
\* returns an output.
C4_BadSplitIsRejected ==
    (Conforming /\ ~SplitFits) => pc = "raised"

\* C5: with a mask_fixer supplied (query, key and value of one shape, seq_split
\* summing to the sequence length) forward completes, with one weight block
\* per segment pair, shaped as its scores.
C5_MaskFixerCompletes ==
    (/\ HasCall
     /\ args.mask_fixer
     /\ args.query.edim = self.embed_dim
     /\ SameShapes
     /\ SplitFits) =>
        /\ pc = "returned"
        /\ \A n \in 1..3 : frame.attn_weights[n].shape = frame.scores[n].shape

\* C7: a forward call whose query, key and value do not all have one shape is
\* aborted instead of returning an output.
C7_ShapeMismatchIsRejected ==
    (HasCall /\ ~SameShapes) => pc = "raised"

\* the float32 entries of the mask: allowed, and blocked
Allowed == Float(0, 0)
Blocked == Float(0 - 10, 9)

\* C9: in the mask of build_adj_masked_matrix(split, 'cross', d), d forward or
\* backward, entry (i, j) is 0 exactly when key index j lies in the segment
\* forward pairs, under d, with the segment of query index i, and is -10e9
\* otherwise.
C9_MaskFollowsDirection ==
    (/\ HasMaskArgs
     /\ pc = "mask"
     /\ maskArgs.mode = "cross"
     /\ maskArgs.direction \in {"forward", "backward"}) =>
        \A i \in 1..Len(mask) : \A j \in 1..Len(mask[i]) :
            LET qseg == SegOf(maskArgs.split, i - 1)
                kseg == ScoreKeySegment(maskArgs.direction)[qseg]
                in   == SegLo(maskArgs.split, kseg) <= j - 1
                          /\ j - 1 < SegHi(maskArgs.split, kseg)
            IN mask[i][j] = (IF in THEN Allowed ELSE Blocked)

====
